---- MODULE Spec2Model ----
(***************************************************************************)
(* The npm module (packaging/language/npm.py): one run of main() against   *)
(* an external npm executable.  A run is a sequence of steps, one per      *)
(* call of Npm._exec; the output of the executable is an input of the      *)
(* step that runs it.                                                      *)
(***************************************************************************)
EXTENDS Integers, Sequences, FiniteSets, TLC

VARIABLES
    opts,        \* module.params of the current run (plus check_mode)
    pc,          \* position of main(): which _exec call comes next
    pathState,   \* what is at self.path on disk: "none", "dir" or "file"
    pathState0,  \* pathState when the current run started
    cmds,        \* the commands run_command has executed in this run
    installed,   \* Npm.list(): installed
    missing,     \* Npm.list(): missing
    outdated,    \* Npm.list_outdated(): outdated
    changed,     \* main(): changed
    status,      \* "running", "ok" (exit_json), "failed" (fail_json), "crashed"
    msg,         \* the msg of fail_json
    called,      \* the Npm method main has called after the inspection
    listOut,     \* <<what list() read from 'list --json'>>
    outdOut,     \* <<what list() or list_outdated(), whichever is the later,
                 \* read from 'outdated --json'>>
    legacyOut    \* <<what list_outdated() read from 'outdated'>>
                 \* All three are locals of the method that reads them: those of
                 \* list() last until main calls list_outdated() or a command that
                 \* changes things, those of list_outdated() until the latter.

vars == <<opts, pc, pathState, pathState0, cmds, installed, missing, outdated,
          changed, status, msg, called, listOut, outdOut, legacyOut>>

----------------------------------------------------------------------------
(* Bounds and input sets *)

\* Lines of the legacy (non-JSON) 'npm outdated' output.
MaxLines == 2

\* Python's None.
None == "<None>"

\* Python truthiness of an optional string.
Truthy(x) == x \notin {None, ""}

Pkgs == {"a", "b"}
Versions == {"1.0", "2.0"}
NameOpts == {None, "a"}
VersionOpts == {None, "2.0"}
PathOpts == {None, "/app"}
States == {"present", "absent", "latest"}

\* What may be at the path of a run when it starts.  A run without a path
\* looks at none.
DiskStates(o) == IF Truthy(o.path) THEN {"none", "dir", "file"} ELSE {"none"}

Options ==
    [name : NameOpts, path : PathOpts, version : VersionOpts, glbl : BOOLEAN,
     state : States, check_mode : BOOLEAN]

NoOptions ==
    [name |-> None, path |-> None, version |-> None, glbl |-> FALSE,
     state |-> "present", check_mode |-> FALSE]

\* One entry of data['dependencies'] of 'npm list --json'.  A key that is
\* absent and a key that is false are the same to the code; version = None
\* stands for no 'version' key.
DepInfos ==
    { [missing |-> TRUE,  invalid |-> FALSE, version |-> None],
      [missing |-> FALSE, invalid |-> TRUE,  version |-> "2.0"],
      [missing |-> FALSE, invalid |-> FALSE, version |-> None],
      [missing |-> FALSE, invalid |-> FALSE, version |-> "1.0"],
      [missing |-> FALSE, invalid |-> FALSE, version |-> "2.0"] }

\* One entry of 'npm outdated --json'; None stands for an absent key.
\* 'current' and 'location' are left out for a package that is not installed;
\* an entry with 'current' and without 'wanted' is one list_outdated() cannot
\* compare.
OutdInfos ==
    { [current |-> None,  wanted |-> "2.0", location |-> None],
      [current |-> "1.0", wanted |-> None,  location |-> "lib"],
      [current |-> None,  wanted |-> "2.0", location |-> "lib"],
      [current |-> "1.0", wanted |-> "1.0", location |-> "lib"],
      [current |-> "1.0", wanted |-> "2.0", location |-> "lib"],
      [current |-> "2.0", wanted |-> "2.0", location |-> ""] }

\* The entries tried for a package other than a.
DepInfosOther ==
    { [missing |-> TRUE,  invalid |-> FALSE, version |-> None],
      [missing |-> FALSE, invalid |-> FALSE, version |-> "1.0"],
      [missing |-> FALSE, invalid |-> FALSE, version |-> "2.0"] }
OutdInfosOther ==
    { [current |-> None,  wanted |-> "2.0", location |-> None],
      [current |-> "1.0", wanted |-> "1.0", location |-> "lib"],
      [current |-> "1.0", wanted |-> "2.0", location |-> "lib"] }

\* The objects with package names as keys: entries of V for a, of W for the
\* other packages.
Maps(V, W) ==
    UNION { {f \in [S -> V \cup W] : \A p \in S : f[p] \in (IF p = "a" THEN V ELSE W)} :
            S \in SUBSET Pkgs }

EmptyMap == [p \in {} |-> None]

\* Outputs of 'list --json': not JSON, an object without 'dependencies',
\* or an object with them.
ListOutputs ==
    { [json |-> FALSE, hasDeps |-> FALSE, deps |-> EmptyMap],
      [json |-> TRUE,  hasDeps |-> FALSE, deps |-> EmptyMap] }
    \cup { [json |-> TRUE, hasDeps |-> TRUE, deps |-> d] : d \in Maps(DepInfos, DepInfosOther) }

\* Outputs of 'outdated --json': not JSON (npm prints nothing, or a table),
\* or an object.
OutdOutputs ==
    { [json |-> FALSE, data |-> EmptyMap] }
    \cup { [json |-> TRUE, data |-> d] : d \in Maps(OutdInfos, OutdInfosOther) }

\* Lines of the legacy output, as sequences of words and separators.
Separators == {" ", "@"}
LegacyLines ==
    { <<>>,
      <<"a">>,
      <<"a", " ", "1.0">>,
      <<"b", "@", "1.0">>,
      <<"Package", " ", "Current">>,
      <<" ", "a">> }

RECURSIVE SeqsUpTo(_, _)
SeqsUpTo(S, n) ==
    IF n = 0 THEN {<<>>}
    ELSE LET shorter == SeqsUpTo(S, n - 1)
         IN  shorter \cup { Append(s, x) : s \in shorter, x \in S }

LegacyOutputs == SeqsUpTo(LegacyLines, MaxLines)

\* The exit codes of npm: any command may end with either, whatever it
\* prints.
ExitCodes == {0, 1}
ErrTexts == {"npm ERR! code E404", "npm ERR! code EACCES"}

----------------------------------------------------------------------------
(* Npm.__init__ *)

\* self.name_version: name + '@' + version, or name alone.
NameVersion(name, version) ==
    IF Truthy(version) THEN name \o "@" \o version ELSE name

\* self.reqversion
ReqVersion(version) == IF Truthy(version) THEN version ELSE None

\* None + '@' raises TypeError.
InitRaises(o) == Truthy(o.version) /\ o.name = None

----------------------------------------------------------------------------
(* Npm._exec *)

\* The command runs unless in check mode, or if it is marked as safe there.
ExecRuns(check_mode, run_in_check_mode) ==
    ~check_mode \/ (check_mode /\ run_in_check_mode)

\* The argument vector after the executable (production, ignore_scripts and
\* registry only append further flags and are left out).
BuildCmd(args, o) ==
    args \o (IF o.glbl THEN <<"--global">> ELSE <<>>)
         \o (IF Truthy(o.name) THEN <<NameVersion(o.name, o.version)>> ELSE <<>>)

\* os.makedirs(self.path) when os.path.exists(self.path) is false.  mk is
\* whether the directory can be made; it cannot when a parent is a file, the
\* path is a dangling link or the file system refuses.
PathAfterExec(o, ps, mk) ==
    IF Truthy(o.path) /\ ps = "none" /\ mk THEN "dir" ELSE ps

\* The outcomes of os.makedirs to try: it is called only for a path that does
\* not exist, and then it makes the directory (TRUE) or raises (FALSE).
MakedirsOutcomes(o, ps) ==
    IF Truthy(o.path) /\ ps = "none" THEN BOOLEAN ELSE {TRUE}

\* os.makedirs raises OSError, which nothing catches.
MakedirsRaises(o, ps, mk) == Truthy(o.path) /\ ps = "none" /\ ~mk

\* not os.path.isdir(self.path)
PathNotDir(o, ps, mk) == Truthy(o.path) /\ PathAfterExec(o, ps, mk) # "dir"

PathMsg(o) == "path " \o o.path \o " is not a directory"

\* Mutant: the exit code is never checked.
CheckRcFails_Never(rc, check_rc) == FALSE

\* run_command(cmd, check_rc=check_rc) calls fail_json on a non-zero rc.
CheckRcFails(rc, check_rc) == check_rc /\ rc # 0

\* How a call of _exec that gets to its command ends: "raise" (OSError out of
\* os.makedirs), "notdir" (fail_json before the command), "rc" (fail_json in
\* run_command) or "out" (it returns).
ExecOutcome(o, ps, mk, rc, check_rc) ==
    IF MakedirsRaises(o, ps, mk) THEN "raise"
    ELSE IF PathNotDir(o, ps, mk) THEN "notdir"
    ELSE IF CheckRcFails(rc, check_rc) THEN "rc"
    ELSE "out"

----------------------------------------------------------------------------
(* Npm.list *)

\* The branch a dependency of 'list --json' takes.
DepIsMissing(depinfo, reqversion) ==
    \/ depinfo.missing
    \/ depinfo.invalid
    \/ (Truthy(reqversion) /\ depinfo.version # None
        /\ depinfo.version # reqversion)

\* installed and missing after the loop over data['dependencies'].
ListDeps(out, reqversion) ==
    IF out.hasDeps
    THEN [installed |-> {d \in DOMAIN out.deps :
                            ~DepIsMissing(out.deps[d], reqversion)},
          missing   |-> {d \in DOMAIN out.deps :
                            DepIsMissing(out.deps[d], reqversion)}]
    ELSE [installed |-> {}, missing |-> {}]

\* The two updates from 'outdated --json'; a ValueError leaves the sets.
ListMergeOutdated(sets, out) ==
    IF out.json
    THEN LET inst == sets.installed \cup
                       {p \in DOMAIN out.data :
                           p \notin sets.missing /\ Truthy(out.data[p].location)}
         IN  [installed |-> inst,
              missing   |-> sets.missing \cup
                              {p \in DOMAIN out.data :
                                  p \notin inst /\ out.data[p].current = None}]
    ELSE sets

\* Mutant: the name is added to missing whether it is installed or not.
ListAddName_Always(sets, name) ==
    IF Truthy(name)
    THEN [sets EXCEPT !.missing = @ \cup {name}]
    ELSE sets

\* if self.name and self.name not in installed: missing.add(self.name)
ListAddName(sets, name) ==
    IF Truthy(name) /\ name \notin sets.installed
    THEN [sets EXCEPT !.missing = @ \cup {name}]
    ELSE sets

----------------------------------------------------------------------------
(* Npm.list_outdated *)

\* info['wanted'] of an entry without it raises KeyError.
PkgRaises(info, reqversion) ==
    info.current # None /\ ~Truthy(reqversion) /\ info.wanted = None

PkgIsOutdated(info, reqversion) ==
    IF info.current = None THEN FALSE
    ELSE IF Truthy(reqversion) THEN info.current # reqversion
    ELSE info.current # info.wanted

OutdatedRaises(out, reqversion) ==
    \E p \in DOMAIN out.data : PkgRaises(out.data[p], reqversion)

OutdatedFromJson(out, reqversion) ==
    {p \in DOMAIN out.data : PkgIsOutdated(out.data[p], reqversion)}

\* str.lower() of a word.
Lower(w) ==
    CASE w = "Package" -> "package"
      [] w = "Current" -> "current"
      [] OTHER -> w

RECURSIVE Join(_)
Join(ws) == IF ws = <<>> THEN "" ELSE Head(ws) \o Join(Tail(ws))

\* Position of the first whitespace or '@' of a line, 0 if there is none.
FirstSep(line) ==
    LET at == {i \in 1..Len(line) : line[i] \in Separators}
    IN  IF at = {} THEN 0 ELSE CHOOSE i \in at : \A j \in at : i <= j

\* pkg, other = re.split('\s|@', dep, 1)
SplitPkg(line) == Join([i \in 1..(FirstSep(line) - 1) |-> Lower(line[i])])
SplitOther(line) == {Lower(line[i]) : i \in (FirstSep(line) + 1)..Len(line)}

\* The unpacking raises ValueError when the line has no separator.
LineRaises(line) == line # <<>> /\ FirstSep(line) = 0

\* Mutant: the header is not skipped.
LineIsHeader_Never(line) == FALSE

\* A header line: pkg.lower() == 'package' and 'current' in other.lower()
LineIsHeader(line) ==
    SplitPkg(line) = "package" /\ "current" \in SplitOther(line)

LegacyRaises(text) == \E i \in 1..Len(text) : LineRaises(text[i])

\* pkg as written (not lowered) of every line that is neither empty nor a
\* header.
OutdatedFromLegacy(text) ==
    { Join(SubSeq(text[i], 1, FirstSep(text[i]) - 1)) :
        i \in {j \in 1..Len(text) : text[j] # <<>> /\ ~LineIsHeader(text[j])} }

----------------------------------------------------------------------------
(* main *)

\* Mutant: the check of absent with a version is left out.
InvalidOptionsMsg_NoAbsentVersion(o) ==
    IF ~Truthy(o.path) /\ ~o.glbl
    THEN "path must be specified when not using global"
    ELSE IF o.state = "absent" /\ ~Truthy(o.name)
    THEN "uninstalling a package is only available for named packages"
    ELSE IF o.state = "latest" /\ Truthy(o.version)
    THEN "when requesting latest you cannot request a specific version"
    ELSE None

\* The msg of the first fail_json the options run into, None if none.
InvalidOptionsMsg(o) ==
    IF ~Truthy(o.path) /\ ~o.glbl
    THEN "path must be specified when not using global"
    ELSE IF o.state = "absent" /\ ~Truthy(o.name)
    THEN "uninstalling a package is only available for named packages"
    ELSE IF o.state = "latest" /\ Truthy(o.version)
    THEN "when requesting latest you cannot request a specific version"
    ELSE IF o.state = "absent" /\ Truthy(o.version)
    THEN "when uninstalling packages you cannot request a specific version"
    ELSE None

\* Mutant: latest looks at missing and outdated before it looks at installed.
Decide_UpdateFirst(state, name, inst, miss, outd) ==
    IF state = "present"
    THEN IF miss # {} \/ inst = {} THEN "install" ELSE "none"
    ELSE IF state = "latest"
    THEN IF miss # {} \/ outd # {} THEN "update"
         ELSE IF inst = {} \/ (Truthy(name) /\ name \notin inst) THEN "install"
         ELSE "none"
    ELSE IF name \in inst THEN "uninstall" ELSE "none"

\* Mutant: absent uninstalls a package that is missing.
Decide_AbsentMissing(state, name, inst, miss, outd) ==
    IF state = "present"
    THEN IF miss # {} \/ inst = {} THEN "install" ELSE "none"
    ELSE IF state = "latest"
    THEN IF inst = {} \/ (Truthy(name) /\ name \notin inst) THEN "install"
         ELSE IF miss # {} \/ outd # {} THEN "update"
         ELSE "none"
    ELSE IF name \in miss THEN "uninstall" ELSE "none"

\* The Npm method main calls after the inspection, "none" if it calls none.
Decide(state, name, inst, miss, outd) ==
    IF state = "present"
    THEN IF miss # {} \/ inst = {} THEN "install" ELSE "none"
    ELSE IF state = "latest"
    THEN IF inst = {} \/ (Truthy(name) /\ name \notin inst) THEN "install"
         ELSE IF miss # {} \/ outd # {} THEN "update"
         ELSE "none"
    ELSE IF name \in inst THEN "uninstall" ELSE "none"

----------------------------------------------------------------------------
(* The run *)

Init ==
    /\ opts = NoOptions
    /\ pc = "start"
    /\ pathState = "none"
    /\ pathState0 = "none"
    /\ cmds = <<>>
    /\ installed = {}
    /\ missing = {}
    /\ outdated = {}
    /\ changed = FALSE
    /\ status = "running"
    /\ msg = None
    /\ called = "none"
    /\ listOut = <<>>
    /\ outdOut = <<>>
    /\ legacyOut = <<>>

\* The run ends: exit_json, fail_json or an uncaught exception.
Exit(st, m) == status' = st /\ msg' = m /\ pc' = "exit"

\* The run goes on to its next _exec.
Goto(next) == status' = status /\ msg' = msg /\ pc' = next

\* _exec up to the return of run_command: the directory is made, and unless
\* that raises or the path is no directory the command is run and returns rc
\* and err.
Exec(args, mk, rc, err, check_rc) ==
    /\ pathState' = PathAfterExec(opts, pathState, mk)
    /\ cmds' = IF ExecOutcome(opts, pathState, mk, rc, check_rc) \in {"raise", "notdir"}
               THEN cmds
               ELSE Append(cmds, [argv |-> BuildCmd(args, opts),
                                  rc |-> rc, err |-> err])

\* The OSError of os.makedirs, the fail_json of _exec or that of run_command.
ExecFail(mk, rc, err, check_rc) ==
    CASE ExecOutcome(opts, pathState, mk, rc, check_rc) = "raise" ->
             Exit("crashed", None)
      [] ExecOutcome(opts, pathState, mk, rc, check_rc) = "notdir" ->
             Exit("failed", PathMsg(opts))
      [] OTHER -> Exit("failed", err)

\* main from the return of list() (and of list_outdated() for latest) up to
\* the call of npm.install/update/uninstall, or to exit_json.
Reconcile(sets, outd) ==
    LET method == Decide(opts.state, opts.name, sets.installed, sets.missing, outd)
    IN  /\ installed' = sets.installed
        /\ missing' = sets.missing
        /\ outdated' = outd
        /\ changed' = (method # "none")
        /\ called' = method
        /\ IF method = "none" THEN Exit("ok", None) ELSE Goto(method)

\* main up to the first _exec: the option checks and Npm.__init__.  found is
\* whether an executable was given or get_bin_path('npm', True) finds one.
Main(o, found, disk) ==
    /\ pc = "start"
    /\ opts' = o
    /\ pathState' = disk
    /\ pathState0' = disk
    /\ IF InvalidOptionsMsg(o) # None THEN Exit("failed", InvalidOptionsMsg(o))
       ELSE IF ~found THEN Exit("failed", "Failed to find required executable npm")
       ELSE IF InitRaises(o) THEN Exit("crashed", None)
       ELSE Goto("list")
    /\ UNCHANGED <<cmds, installed, missing, outdated, changed, called,
                   listOut, outdOut, legacyOut>>

\* list(): _exec(['list', '--json'], True, False) and the loop over the
\* dependencies.  Output that is not JSON raises ValueError out of main.
ListCmd(mk, rc, out) ==
    /\ pc = "list"
    /\ ExecRuns(opts.check_mode, TRUE)
    /\ Exec(<<"list", "--json">>, mk, rc, "", FALSE)
    /\ IF ExecOutcome(opts, pathState, mk, rc, FALSE) # "out"
       THEN /\ ExecFail(mk, rc, "", FALSE)
            /\ UNCHANGED <<listOut, installed, missing>>
       ELSE /\ listOut' = <<out>>
            /\ IF out.json
               THEN /\ installed' = ListDeps(out, ReqVersion(opts.version)).installed
                    /\ missing' = ListDeps(out, ReqVersion(opts.version)).missing
                    /\ Goto("list2")
               ELSE /\ Exit("crashed", None)
                    /\ UNCHANGED <<installed, missing>>
    /\ UNCHANGED <<opts, pathState0, outdated, changed, called, outdOut, legacyOut>>

\* list(): _exec(['outdated', '--json'], True, False), the two updates, the
\* name check and the return to main, which goes on to its next _exec.
ListOutdatedCmd(mk, rc, out) ==
    /\ pc = "list2"
    /\ ExecRuns(opts.check_mode, TRUE)
    /\ Exec(<<"outdated", "--json">>, mk, rc, "", FALSE)
    /\ IF ExecOutcome(opts, pathState, mk, rc, FALSE) # "out"
       THEN /\ ExecFail(mk, rc, "", FALSE)
            /\ UNCHANGED <<outdOut, installed, missing, outdated, changed, called>>
       ELSE /\ outdOut' = <<out>>
            /\ LET sets == ListAddName(
                             ListMergeOutdated([installed |-> installed,
                                                missing |-> missing], out),
                             opts.name)
               IN  IF opts.state = "latest"
                   THEN /\ installed' = sets.installed
                        /\ missing' = sets.missing
                        /\ Goto("outdated")
                        /\ UNCHANGED <<outdated, changed, called>>
                   ELSE Reconcile(sets, outdated)
    /\ UNCHANGED <<opts, pathState0, listOut, legacyOut>>

\* list_outdated(): _exec(['outdated', '--json'], True, False), a second run
\* of the command with an output of its own.  What list() read is gone.  JSON
\* gives the outdated set and main goes on; anything else goes to the legacy
\* command.
OutdatedCmd(mk, rc, out) ==
    /\ pc = "outdated"
    /\ ExecRuns(opts.check_mode, TRUE)
    /\ Exec(<<"outdated", "--json">>, mk, rc, "", FALSE)
    /\ IF ExecOutcome(opts, pathState, mk, rc, FALSE) # "out"
       THEN /\ ExecFail(mk, rc, "", FALSE)
            /\ UNCHANGED <<listOut, outdOut, installed, missing, outdated,
                           changed, called>>
       ELSE /\ listOut' = <<>>
            /\ outdOut' = <<out>>
            /\ IF ~out.json
               THEN /\ Goto("legacy")
                    /\ UNCHANGED <<installed, missing, outdated, changed, called>>
               ELSE IF OutdatedRaises(out, ReqVersion(opts.version))
               THEN /\ Exit("crashed", None)
                    /\ UNCHANGED <<installed, missing, outdated, changed, called>>
               ELSE Reconcile([installed |-> installed, missing |-> missing],
                              OutdatedFromJson(out, ReqVersion(opts.version)))
    /\ UNCHANGED <<opts, pathState0, legacyOut>>

\* list_outdated(), except ValueError: _exec(['outdated'], True, False) and
\* the loop over its lines, then main goes on.
LegacyCmd(mk, rc, text) ==
    /\ pc = "legacy"
    /\ ExecRuns(opts.check_mode, TRUE)
    /\ Exec(<<"outdated">>, mk, rc, "", FALSE)
    /\ IF ExecOutcome(opts, pathState, mk, rc, FALSE) # "out"
       THEN /\ ExecFail(mk, rc, "", FALSE)
            /\ UNCHANGED <<legacyOut, installed, missing, outdated, changed, called>>
       ELSE /\ legacyOut' = <<text>>
            /\ IF LegacyRaises(text)
               THEN /\ Exit("crashed", None)
                    /\ UNCHANGED <<installed, missing, outdated, changed, called>>
               ELSE Reconcile([installed |-> installed, missing |-> missing],
                              OutdatedFromLegacy(text))
    /\ UNCHANGED <<opts, pathState0, listOut, outdOut>>

\* install(), update() or uninstall(): _exec([method]), with check_rc, and
\* exit_json(changed=True).  In check mode _exec returns '' at once.  What
\* list() and list_outdated() read is gone by now.
Mutate(method, mk, rc, err) ==
    /\ pc = method
    /\ IF ExecRuns(opts.check_mode, FALSE)
       THEN /\ Exec(<<method>>, mk, rc, err, TRUE)
            /\ IF ExecOutcome(opts, pathState, mk, rc, TRUE) # "out"
               THEN ExecFail(mk, rc, err, TRUE)
               ELSE Exit("ok", None)
       ELSE /\ Exit("ok", None)
            /\ UNCHANGED <<pathState, cmds>>
    /\ listOut' = <<>>
    /\ outdOut' = <<>>
    /\ legacyOut' = <<>>
    /\ UNCHANGED <<opts, pathState0, installed, missing, outdated, changed, called>>

Install(mk, rc, err) == Mutate("install", mk, rc, err)
Update(mk, rc, err) == Mutate("update", mk, rc, err)
Uninstall(mk, rc, err) == Mutate("uninstall", mk, rc, err)

\* The module is run again, as a new process.
NextRun ==
    /\ pc = "exit"
    /\ opts' = NoOptions
    /\ pc' = "start"
    /\ pathState' = "none"
    /\ pathState0' = "none"
    /\ cmds' = <<>>
    /\ installed' = {}
    /\ missing' = {}
    /\ outdated' = {}
    /\ changed' = FALSE
    /\ status' = "running"
    /\ msg' = None
    /\ called' = "none"
    /\ listOut' = <<>>
    /\ outdOut' = <<>>
    /\ legacyOut' = <<>>

\* stderr of a command that exits 0 is not read.
ErrOf(rc) == IF rc = 0 THEN {""} ELSE ErrTexts

Next ==
    \/ \E o \in Options, found \in BOOLEAN : \E disk \in DiskStates(o) :
          Main(o, found, disk)
    \/ \E mk \in MakedirsOutcomes(opts, pathState), rc \in ExitCodes,
          out \in ListOutputs : ListCmd(mk, rc, out)
    \/ \E mk \in MakedirsOutcomes(opts, pathState), rc \in ExitCodes,
          out \in OutdOutputs : ListOutdatedCmd(mk, rc, out)
    \/ \E mk \in MakedirsOutcomes(opts, pathState), rc \in ExitCodes,
          out \in OutdOutputs : OutdatedCmd(mk, rc, out)
    \/ \E mk \in MakedirsOutcomes(opts, pathState), rc \in ExitCodes,
          text \in LegacyOutputs : LegacyCmd(mk, rc, text)
    \/ \E mk \in MakedirsOutcomes(opts, pathState), rc \in ExitCodes :
          \E err \in ErrOf(rc) : Install(mk, rc, err)
    \/ \E mk \in MakedirsOutcomes(opts, pathState), rc \in ExitCodes :
          \E err \in ErrOf(rc) : Update(mk, rc, err)
    \/ \E mk \in MakedirsOutcomes(opts, pathState), rc \in ExitCodes :
          \E err \in ErrOf(rc) : Uninstall(mk, rc, err)
    \/ NextRun

Spec == Init /\ [][Next]_vars

----------------------------------------------------------------------------
(* Vocabulary of the properties *)

Mutating == {"install", "update", "uninstall"}
Inspecting == {"list", "outdated"}

\* The command word of the i-th command of the run.
CmdName(i) == cmds[i].argv[1]

\* Positions of the mutating commands of the run.
MutIdx == {i \in DOMAIN cmds : CmdName(i) \in Mutating}

Finished == pc = "exit"

\* The option combinations main rejects.
InvalidFlags(o) ==
    \/ ~Truthy(o.path) /\ ~o.glbl
    \/ o.state = "absent" /\ ~Truthy(o.name)
    \/ o.state = "latest" /\ Truthy(o.version)
    \/ o.state = "absent" /\ Truthy(o.version)

\* list() has returned to main: its second command has run.
ListReturned == Len(cmds) >= 2

\* list() has just returned: what it read is at hand, and main has looked at
\* the sets and, for present and absent, chosen what to do.
AtListReturn == listOut # <<>> /\ outdOut # <<>>

\* list_outdated() has been invoked: its 'outdated --json' is the third
\* command of a run.
ListOutdatedInvoked == Len(cmds) >= 3 /\ CmdName(3) = "outdated"

\* What list_outdated() read is at hand.
AtOutdatedRead == ListOutdatedInvoked /\ listOut = <<>> /\ outdOut # <<>>

\* What 'list --json' reports under 'dependencies'.
Listed == IF listOut # <<>> /\ listOut[1].hasDeps THEN listOut[1].deps ELSE EmptyMap

\* What the 'outdated --json' of list() reports, nothing if it is not JSON.
ListOutd == IF AtListReturn /\ outdOut[1].json THEN outdOut[1].data ELSE EmptyMap

\* What the 'outdated --json' of list_outdated() reports, nothing if it is
\* not JSON.
Outd == IF AtOutdatedRead /\ outdOut[1].json THEN outdOut[1].data ELSE EmptyMap

\* list reports p as installed, at the requested version if one is requested.
ListedOK(p) ==
    /\ p \in DOMAIN Listed
    /\ ~Listed[p].missing
    /\ ~Listed[p].invalid
    /\ Truthy(opts.version) => Listed[p].version = opts.version

\* The tool reports p as installed at a version that is not the requested one.
AtOtherVersion(p) ==
    /\ Truthy(opts.version)
    /\ \/ /\ p \in DOMAIN Listed
          /\ ~Listed[p].missing /\ ~Listed[p].invalid
          /\ Listed[p].version \notin {None, opts.version}
       \/ /\ p \notin DOMAIN Listed
          /\ p \in DOMAIN ListOutd
          /\ ListOutd[p].current \notin {None, opts.version}

----------------------------------------------------------------------------
(* C1 *)

\* C1: a run whose options are an invalid combination (no path and not
\* global; absent without a name; latest with a version; absent with a
\* version) has ended in failure as soon as main has looked at them, and has
\* not executed any command nor touched the directory.
C1_InvalidFlagsFailFirst ==
    (pc # "start" /\ InvalidFlags(opts)) =>
        /\ Finished
        /\ status = "failed"
        /\ msg \notin {None, ""}
        /\ cmds = <<>>
        /\ pathState = pathState0

\* An absent run with a name and a version, rejected by the last check only.
C1_Witness ==
    /\ Finished
    /\ status = "failed"
    /\ opts.state = "absent"
    /\ opts.name = "a"
    /\ opts.version = "2.0"
    /\ opts.glbl
    /\ cmds = <<>>

----------------------------------------------------------------------------
(* C3 *)

\* C3 as stated: in a run that has ended, a command that exited non-zero is
\* the last command of the run, the run has not ended successfully, and where
\* it ended in fail_json the message is the output of that command.
C3_AnyNonZeroExitIsFatal ==
    Finished =>
        \A i \in DOMAIN cmds :
            cmds[i].rc # 0 =>
                /\ i = Len(cmds)
                /\ status # "ok"
                /\ status = "failed" => msg = cmds[i].err

\* C3, amended: a mutating command (install, update, uninstall) that exits
\* non-zero ends the run at once in failure with the captured output of the
\* command as the message; it is the last command of the run and no mutating
\* command is run twice.  (list and outdated are run with check_rc=False: their
\* exit code is not looked at.)
C3_MutatingNonZeroExitIsFatal ==
    /\ \A i \in MutIdx :
          cmds[i].rc # 0 =>
              /\ i = Len(cmds)
              /\ Finished
              /\ status = "failed"
              /\ msg = cmds[i].err
              /\ msg \in ErrTexts
    /\ \A i \in MutIdx : cmds[i].rc = 0 => status # "failed"
    /\ Cardinality(MutIdx) <= 1

\* An install that exited 1 after both inspection commands exited 1.
C3_Witness ==
    /\ Finished
    /\ status = "failed"
    /\ Len(cmds) = 3
    /\ CmdName(3) = "install"
    /\ cmds[3].rc = 1
    /\ cmds[1].rc = 1
    /\ cmds[2].rc = 1
    /\ msg = "npm ERR! code E404"

----------------------------------------------------------------------------
(* C9 *)

\* C9 as stated: a run in check mode that has ended successfully has executed
\* no mutating command, has executed the inspection commands, and has left
\* the target directory as it found it.
C9_CheckModeReadOnly ==
    (Finished /\ status = "ok" /\ opts.check_mode) =>
        /\ MutIdx = {}
        /\ Len(cmds) >= 2
        /\ pathState = pathState0

----------------------------------------------------------------------------
(* C10 *)

\* C10: a run that has ended successfully outside check mode has executed at
\* most one mutating command, as its last command and after nothing but
\* inspection commands; it reports changed exactly if it executed one; the
\* command is install for present, install or update for latest, uninstall
\* for absent; and with absent, uninstall has been executed exactly if the
\* named package is in installed.
C10_ChangedMatchesCommand ==
    (Finished /\ status = "ok" /\ ~opts.check_mode) =>
        /\ Cardinality(MutIdx) <= 1
        /\ \A i \in MutIdx : i = Len(cmds)
        /\ \A i \in DOMAIN cmds \ MutIdx : CmdName(i) \in Inspecting
        /\ changed <=> MutIdx # {}
        /\ \A i \in MutIdx :
              CmdName(i) \in (CASE opts.state = "present" -> {"install"}
                                [] opts.state = "latest" -> {"install", "update"}
                                [] OTHER -> {"uninstall"})
        /\ opts.state = "absent" => (MutIdx # {} <=> opts.name \in installed)

\* An absent run that found the package and removed it.
C10_Witness ==
    /\ Finished
    /\ status = "ok"
    /\ ~opts.check_mode
    /\ opts.state = "absent"
    /\ changed
    /\ Len(cmds) = 3
    /\ CmdName(3) = "uninstall"
    /\ cmds[3].argv = <<"uninstall", "--global", "a">>
    /\ "a" \in installed

----------------------------------------------------------------------------
(* C2 *)

\* The legacy output names no package: every line is empty or the header.
LegacyClean ==
    /\ legacyOut # <<>>
    /\ \A i \in 1..Len(legacyOut[1]) :
          legacyOut[1][i] \in {<<>>, <<"Package", " ", "Current">>}

\* Every package list() is told of is installed, at the requested version if
\* one is requested, and so is the named package.
AllInstalled ==
    /\ \A p \in DOMAIN Listed : ListedOK(p)
    /\ \A p \in DOMAIN ListOutd :
          /\ ListOutd[p].current # None
          /\ Truthy(opts.version) => ListOutd[p].current = opts.version
    /\ Truthy(opts.name) => ListedOK(opts.name)

\* No package list_outdated() is told of is outdated.
NoneOutdated ==
    /\ \A p \in DOMAIN Outd : Outd[p].current = Outd[p].wanted
    /\ ~outdOut[1].json => LegacyClean

\* list() is told of the named package neither as installed nor as outdated.
NameNotInstalled ==
    /\ ~ListedOK(opts.name)
    /\ opts.name \notin DOMAIN ListOutd

\* The desired state of the run already holds.  For present and absent it is
\* read off what list() was told; for latest, whose check comes after
\* list_outdated(), off the sets list() returned and what list_outdated() was
\* told.
DesiredStateHolds ==
    CASE opts.state = "present" -> AtListReturn /\ AllInstalled
      [] opts.state = "absent" -> AtListReturn /\ NameNotInstalled
      [] OTHER -> /\ AtOutdatedRead
                  /\ pc # "legacy"
                  /\ missing = {}
                  /\ Truthy(opts.name) => opts.name \in installed
                  /\ NoneOutdated

\* At least one package is installed.
SomeInstalled ==
    IF opts.state = "latest" THEN installed # {} ELSE \E p \in Pkgs : ListedOK(p)

\* C2 as stated: a run that finds its desired state already holding ends
\* there, successfully, having called and executed none of install, update
\* and uninstall, and reports changed=false.
C2_SatisfiedStateNoMutation ==
    DesiredStateHolds =>
        /\ Finished
        /\ status = "ok"
        /\ MutIdx = {}
        /\ called = "none"
        /\ ~changed

\* C2, amended: the same, where for present and latest at least one package
\* is installed.  (With nothing installed at all, as in a project without
\* dependencies, present and latest run install every time.)  And the sets a
\* latest run is judged by are those of the tool: where list() is told that
\* every package is installed, and of one at least, it returns with missing
\* empty and with the named package, and so something, in installed.
C2_SatisfiedNonEmptyStateNoMutation ==
    /\ (/\ DesiredStateHolds
        /\ opts.state \in {"present", "latest"} => SomeInstalled) =>
           /\ Finished
           /\ status = "ok"
           /\ MutIdx = {}
           /\ called = "none"
           /\ ~changed
    /\ (/\ opts.state = "latest"
        /\ AtListReturn
        /\ AllInstalled
        /\ \E p \in Pkgs : ListedOK(p)) =>
           /\ missing = {}
           /\ installed # {}
           /\ Truthy(opts.name) => opts.name \in installed
           /\ pc = "outdated"

\* A latest run for package a, installed with b, and both at their wanted
\* version.
C2_Witness ==
    /\ Finished
    /\ DesiredStateHolds
    /\ opts.state = "latest"
    /\ opts.name = "a"
    /\ ~opts.check_mode
    /\ installed = {"a", "b"}
    /\ DOMAIN Outd = {"a", "b"}
    /\ Len(cmds) = 3
    /\ ~changed

----------------------------------------------------------------------------
(* C5 *)

\* The tool reports p as missing, as invalid, or at a version that is not the
\* requested one.
ReportedUnfit(p) ==
    \/ p \in DOMAIN Listed /\ (Listed[p].missing \/ Listed[p].invalid)
    \/ AtOtherVersion(p)

\* C5 as stated: once list() has returned, no package the tool reports as
\* missing, invalid or at another version than the requested one is in
\* installed, and every such package is in missing.
C5_ListSetsRespectVersion ==
    AtListReturn =>
        \A p \in Pkgs :
            ReportedUnfit(p) => (p \notin installed /\ p \in missing)

----------------------------------------------------------------------------
(* C7 *)

\* C7 as stated: a present run with a name and a version whose package is
\* installed at another version calls install when list() has returned and
\* reports changed=true, and one whose package is installed at the requested
\* version, with nothing missing, ends there with changed=false; and the
\* install of such a run, where it has ended successfully outside check mode,
\* is exactly one command 'install name@version'.
C7_PresentNewVersionUpgrades ==
    (opts.state = "present" /\ Truthy(opts.name) /\ Truthy(opts.version)) =>
        /\ (AtListReturn /\ AtOtherVersion(opts.name)) =>
              /\ called = "install"
              /\ changed
        /\ (AtListReturn /\ ListedOK(opts.name) /\ missing = {}) =>
              /\ Finished
              /\ status = "ok"
              /\ ~changed
              /\ MutIdx = {}
        /\ (Finished /\ status = "ok" /\ ~opts.check_mode /\ called = "install") =>
              /\ Cardinality(MutIdx) = 1
              /\ \A i \in MutIdx :
                    /\ CmdName(i) = "install"
                    /\ cmds[i].argv[Len(cmds[i].argv)] = opts.name \o "@" \o opts.version

----------------------------------------------------------------------------
(* C4 *)

ListNotJson == listOut # <<>> /\ ~listOut[1].json

\* The i-th command of the run is the legacy 'outdated'.
IsLegacy(i) ==
    /\ CmdName(i) = "outdated"
    /\ "--json" \notin {cmds[i].argv[j] : j \in DOMAIN cmds[i].argv}

\* The first field of a legacy line: what stands before its first blank or
\* '@'.  Only a line that has one has a first field.
HasField(line) == \E k \in 1..Len(line) : line[k] \in Separators
FirstField(line) ==
    LET k == CHOOSE n \in 1..Len(line) :
                 /\ line[n] \in Separators
                 /\ \A m \in 1..(n - 1) : line[m] \notin Separators
    IN  IF k = 1 THEN "" ELSE IF k = 2 THEN line[1] ELSE line[1] \o line[2]

\* C4 as stated: output that is not JSON does not end the run where it is
\* read, for 'list --json' and for the 'outdated --json' of list() as for the
\* one of list_outdated(), and after the latter the next command is the legacy
\* 'outdated' (one without --json).
C4_EveryInspectionFallsBack ==
    /\ ListNotJson => ~Finished
    /\ (AtListReturn /\ ~outdOut[1].json) => status \in {"running", "ok"}
    /\ (AtOutdatedRead /\ ~outdOut[1].json) =>
          /\ status # "crashed" \/ Len(cmds) >= 4
          /\ Len(cmds) >= 4 => IsLegacy(4)

\* C4, amended: only list_outdated() falls back.  There, after output that is
\* not JSON, the run goes on with 'outdated' run again without --json and
\* takes as outdated the first field of every line of it that is neither
\* empty nor a header; a line that is not empty and has no blank and no '@'
\* makes the run end with an exception.  In list(), 'outdated --json' output
\* that is not JSON is skipped: the run goes on with installed and missing as
\* 'list --json' gave them.  'list --json' output that is not JSON ends the
\* run with an exception.
C4_OnlyListOutdatedFallsBack ==
    /\ ListNotJson => (Finished /\ status = "crashed" /\ Len(cmds) = 1)
    /\ (AtListReturn /\ ~outdOut[1].json) =>
          /\ status \in {"running", "ok"}
          /\ Len(cmds) = 2
          /\ installed = {p \in DOMAIN Listed : p \notin missing}
          /\ missing \subseteq DOMAIN Listed \cup {opts.name}
    /\ \A i \in DOMAIN cmds :
          IsLegacy(i) => (i = 4 /\ ListOutdatedInvoked /\ cmds[3].argv[2] = "--json")
    /\ (AtOutdatedRead /\ ~outdOut[1].json) =>
          /\ Len(cmds) = 3 => (pc = "legacy" /\ status = "running")
          /\ Len(cmds) >= 4 =>
                /\ IsLegacy(4)
                /\ legacyOut # <<>>
                /\ LET lines == {legacyOut[1][i] : i \in 1..Len(legacyOut[1])} \ {<<>>}
                   IN  IF \E l \in lines : ~HasField(l)
                       THEN Finished /\ status = "crashed" /\ Len(cmds) = 4
                       ELSE /\ status # "crashed"
                            /\ outdated = {FirstField(l) :
                                    l \in lines \ {<<"Package", " ", "Current">>}}

\* A latest run whose second 'outdated --json' printed no JSON, although the
\* first did, and whose legacy output was a header and a line for package b:
\* main has called update.
C4_Witness ==
    /\ AtOutdatedRead
    /\ ~outdOut[1].json
    /\ Len(cmds) = 4
    /\ legacyOut = << << <<"Package", " ", "Current">>, <<"b", "@", "1.0">> >> >>
    /\ outdated = {"b"}
    /\ installed = {"a"}
    /\ missing = {}
    /\ called = "update"
    /\ pc = "update"

----------------------------------------------------------------------------
(* C6 *)

\* The run is valid: its options are a valid combination and the module has
\* reported no failure (npm is there, the path is a directory, no command
\* that has to succeed has failed).
ValidRun == ~InvalidFlags(opts) /\ status # "failed"

\* C6: list_outdated() is invoked in a run if and only if the run is valid
\* and state=latest; and when what it reads is JSON, outdated is the set of
\* the packages with a current version that is not their wanted version.
C6_OutdatedIffLatest ==
    /\ ListOutdatedInvoked => (~InvalidFlags(opts) /\ opts.state = "latest")
    /\ (Finished /\ ValidRun /\ opts.state = "latest") => ListOutdatedInvoked
    /\ (AtOutdatedRead /\ outdOut[1].json) =>
          outdated = {p \in DOMAIN Outd :
                         Outd[p].current # None /\ Outd[p].current # Outd[p].wanted}

----------------------------------------------------------------------------
(* C8 *)

\* main has chosen what to do for latest.
LatestDecided ==
    /\ opts.state = "latest"
    /\ ListOutdatedInvoked
    /\ pc \in Mutating \cup {"exit"}
    /\ status # "crashed"

NeedInstall == installed = {} \/ (Truthy(opts.name) /\ opts.name \notin installed)
NeedUpdate == ~NeedInstall /\ (missing # {} \/ outdated # {})

\* C8: once a latest run has chosen, it has called install, and no update,
\* if installed is empty or the named package is not in installed; otherwise
\* update exactly if missing or outdated is not empty; otherwise nothing, and
\* it reports changed=false.  The command a run executes is the one it has
\* called (in check mode it executes none), so update is never executed for a
\* package that is not installed.
C8_LatestChoosesCommand ==
    LatestDecided =>
        /\ NeedInstall => called = "install"
        /\ NeedUpdate => called = "update"
        /\ (~NeedInstall /\ ~NeedUpdate) =>
              (called = "none" /\ ~changed /\ Finished /\ status = "ok")
        /\ changed <=> called # "none"
        /\ \A i \in MutIdx : CmdName(i) = called /\ ~opts.check_mode
        /\ (Finished /\ ~opts.check_mode /\ called # "none") => Cardinality(MutIdx) = 1
        /\ (\E i \in MutIdx : CmdName(i) = "update") =>
              /\ installed # {}
              /\ Truthy(opts.name) => opts.name \in installed

\* A latest run for a, installed, that ran update because b is missing.
C8_Witness ==
    /\ LatestDecided
    /\ Finished
    /\ status = "ok"
    /\ ~opts.check_mode
    /\ opts.name = "a"
    /\ installed = {"a"}
    /\ missing = {"b"}
    /\ outdated = {}
    /\ Len(cmds) = 4
    /\ cmds[4].argv = <<"update", "--global", "a">>

====
